---- MODULE Spec2Model ----
(***************************************************************************)
(* Whisper transcription service (src/main.py) and its command-line        *)
(* variant (src/transcribe.py).                                            *)
(*                                                                         *)
(* Strings the code inspects character by character (filenames, engine     *)
(* text) are sequences of one-character strings; strings the code only     *)
(* compares or passes on (content types, error messages) are TLA+ strings. *)
(* A Python Optional value is a record [present, v].                       *)
(***************************************************************************)
EXTENDS Integers, Sequences, FiniteSets, TLC

(* ------------------------------ bounds -------------------------------- *)
\* number of POST /transcribe requests a behaviour may contain
NumReqs == 2
\* number of distinct names the temporary directory can hand out
MaxTmpNames == 2

Reqs == 1..NumReqs
NoReq == 0

(* ------------------------- Python string helpers ---------------------- *)
Upper == <<"A","B","C","D","E","F","G","H","I","J","K","L","M",
           "N","O","P","Q","R","S","T","U","V","W","X","Y","Z">>
Lower == <<"a","b","c","d","e","f","g","h","i","j","k","l","m",
           "n","o","p","q","r","s","t","u","v","w","x","y","z">>

\* str.lower() on one character
LowerChar(c) ==
    IF \E i \in 1..26 : Upper[i] = c
    THEN Lower[CHOOSE i \in 1..26 : Upper[i] = c]
    ELSE c

\* a comparison that forgets to fold case
StrLower_Identity(s) == s

\* str.lower()
StrLower(s) == [i \in 1..Len(s) |-> LowerChar(s[i])]

\* str.endswith(suffix)
EndsWith(s, suffix) ==
    /\ Len(s) >= Len(suffix)
    /\ SubSeq(s, Len(s) - Len(suffix) + 1, Len(s)) = suffix

\* the characters str.strip() removes
Whitespace == {" ", "\t", "\n"}

\* str.strip(): drop leading and trailing whitespace
Strip(s) ==
    LET keep == {i \in 1..Len(s) : s[i] \notin Whitespace}
    IN  IF keep = {} THEN <<>>
        ELSE LET lo == CHOOSE i \in keep : \A j \in keep : i <= j
                 hi == CHOOSE i \in keep : \A j \in keep : j <= i
             IN  SubSeq(s, lo, hi)

\* index of the last occurrence of character c in s, 0 when there is none
\* (str.rfind, shifted to 1-based positions)
RFind(s, c) ==
    LET at == {i \in 1..Len(s) : s[i] = c}
    IN  IF at = {} THEN 0 ELSE CHOOSE i \in at : \A j \in at : j <= i

\* os.path.splitext(p)[1]: the text from the last dot of the last path
\* component on, unless that component has only dots before it
SplitExt(p) ==
    LET sepIndex == RFind(p, "/")
        dotIndex == RFind(p, ".")
    IN  IF dotIndex > sepIndex
           /\ \E k \in (sepIndex + 1)..(dotIndex - 1) : p[k] # "."
        THEN SubSeq(p, dotIndex, Len(p))
        ELSE <<>>

(* --------------------------- Optional values -------------------------- *)
None == [present |-> FALSE, v |-> <<>>]
Some(x) == [present |-> TRUE, v |-> x]

\* Python truthiness of an Optional[str]: None and "" are falsy
Truthy(o) == o.present /\ o.v # <<>>

\* a content type, dict value or exception message that is not there
Absent == "<absent>"

(* ------------------------------ inputs -------------------------------- *)
\* the allow-lists of transcribe_audio
allowed_types ==
    {"audio/mpeg", "audio/wav", "audio/webm", "audio/mp4",
     "audio/ogg", "audio/flac", "audio/x-flac"}

allowed_extensions ==
    { <<".","m","p","3">>, <<".","w","a","v">>, <<".","w","e","b","m">>,
      <<".","m","4","a">>, <<".","o","g","g">>, <<".","f","l","a","c">> }

\* filenames a client may send (UploadFile.filename is Optional[str])
Filenames ==
    { None,
      Some(<<>>),
      Some(<<"a",".","m","p","3">>),
      Some(<<"A",".","M","P","3">>),
      Some(<<"g",".","W","a","v">>),
      Some(<<"x",".","w","e","b","m">>),
      Some(<<"x",".","m","4","a">>),
      Some(<<"x",".","o","g","g">>),
      Some(<<"x",".","F","L","A","C">>),
      Some(<<"n",".","t","x","t">>),
      Some(<<".","m","p","3">>),
      Some(<<"m","p","3">>),
      Some(<<"a",".","m","p","3",".","t","x","t">>),
      Some(<<"a",".","b",".","o","g","g">>),
      Some(<<"n","o","e","x","t">>),
      Some(<<"d",".","w","a","v","/","x">>),
      Some(<<"a",".","m","p","3","x">>),
      Some(<<"a",".">>) }

\* declared content types a client may send (Optional[str])
ContentTypes ==
    allowed_types \cup {"text/plain", "AUDIO/WAV", "audio/mp3", "", Absent}

\* byte payloads
Payloads == { <<>>, <<82, 73>> }

Upload(fn, ct, data) == [filename |-> fn, content_type |-> ct, payload |-> data]
NoUpload == Upload(None, Absent, <<>>)

\* every upload of the input space
AllUploads ==
    { Upload(fn, ct, d) : fn \in Filenames, ct \in ContentTypes, d \in Payloads }

\* the uploads concurrent clients send
CoreUploads ==
    { Upload(None, "text/plain", <<>>),
      Upload(None, "audio/wav", <<82, 73>>),
      Upload(Some(<<>>), Absent, <<>>),
      Upload(Some(<<"A",".","M","P","3">>), "text/plain", <<82, 73>>),
      Upload(Some(<<"n",".","t","x","t">>), "text/plain", <<82, 73>>) }

\* what Model.transcribe may return: a dict whose "text" and "language"
\* keys may each be missing
Texts == { None, Some(<<>>), Some(<<" ","h","i","\n">>),
           Some(<<"\t","a"," ","b"," ">>) }
Languages == { Absent, "en" }
Result(t, l) == [text |-> t, language |-> l]
NoResult == Result(None, Absent)
Results == { Result(t, l) : t \in Texts, l \in Languages }

\* the dicts the engine returns to concurrent clients
CoreResults == { Result(None, Absent), Result(Some(<<" ","h","i","\n">>), "en") }

\* the uploads clients send, and the dicts the engine returns, in a behaviour
Uploads(which) == IF which = "core" THEN CoreUploads ELSE AllUploads
EngineResults(which) == IF which = "core" THEN CoreResults ELSE Results

\* str(e) of the exceptions the collaborators raise
ErrRead == "upload read failed"
ErrCreate == "cannot create temporary file"
ErrWrite == "No space left on device"
ErrClose == "close failed"
EngineErrors == { "Failed to load audio" }
NoExc == ""

(* ------------------------------- state -------------------------------- *)
VARIABLES
    model,      \* the module-level global `model` of main.py
    startup,    \* the startup event: pending, complete, failed, skipped
    load_exc,   \* str(e) of the exception whisper.load_model raised, if any
    running,    \* the request whose coroutine the event loop is executing
    pc,         \* position of each request's transcribe_audio coroutine
    file,       \* each request's UploadFile
    contents,   \* local `contents` of each request
    temp_file,  \* local `temp_file` of each request (its name)
    closed,     \* temp_file.closed of each request
    audio,      \* the argument of each request's model.transcribe call
    result,     \* local `result` of each request
    exc,        \* str(e) of the exception a request is propagating
    response,   \* what each request returns or raises to the framework
    fs,         \* the files of the temporary directory
    created,    \* per request: temporary files created
    unlinked,   \* per request: os.unlink calls made
    calls,      \* per request: model.transcribe invocations
    probe,      \* the last answer of GET / or GET /health
    inputs,     \* the input space of this behaviour: "core" or "all"
    slots,      \* the requests clients send in this behaviour
    cli         \* the transcribe.py process

svcVars == <<model, startup, load_exc, running, pc, file, contents, temp_file,
             closed, audio, result,
             exc, response, fs, created, unlinked, calls, probe, inputs, slots>>
vars == <<model, startup, load_exc, running, pc, file, contents, temp_file,
          closed, audio, result,
          exc, response, fs, created, unlinked, calls, probe, inputs, slots, cli>>

NoModel == "<None>"
WhisperBase == "base"

\* a temporary file's name: a directory entry and the suffix asked for
TmpPath(n, suffix) == [id |-> n, suffix |-> suffix]
NoTemp == TmpPath(0, <<>>)
TmpNames == 1..MaxTmpNames

\* os.path.exists(name)
Exists(files, name) == \E f \in files : f.path = name

Body(fn, text, lang, ok) ==
    [filename |-> fn, transcription |-> text, language |-> lang, success |-> ok]
NoBody == Body(None, <<>>, Absent, FALSE)
Response(status, detail, body) ==
    [status |-> status, detail |-> detail, body |-> body]
NoResponse == Response(0, <<>>, NoBody)

\* HTTPException(status_code, detail)
HTTPException(status, detail) == Response(status, detail, NoBody)

ModelNotLoadedDetail == <<"Whisper model not loaded">>
UnsupportedDetail ==
    <<"Unsupported file type. Please upload a valid audio file (mp3, wav, webm, m4a, ogg, flac).">>
\* a detail that drops the description of the error
ErrorDetail_Generic(msg) == <<"Error during transcription: ", "">>

\* f"Error during transcription: {str(e)}"
ErrorDetail(msg) == <<"Error during transcription: ", msg>>
\* what the framework answers when the handler raises anything else
InternalServerError == Response(500, <<"Internal Server Error">>, NoBody)
AttributeError == "'NoneType' object has no attribute 'lower'"

\* the terminal states of the request state machine, read off the response
IsSuccess(resp) == resp.status = 200
IsRejectedModelNotReady(resp) ==
    resp.status = 500 /\ resp.detail = ModelNotLoadedDetail
IsRejectedBadInput(resp) == resp.status = 400
IsFailed(resp) ==
    /\ resp.status = 500
    /\ Len(resp.detail) = 2
    /\ resp.detail[1] = "Error during transcription: "

(* ------------------------------ probes -------------------------------- *)
\* GET /
root == [endpoint |-> "/", status |-> "healthy", model_loaded |-> FALSE]

\* a liveness-only probe: "healthy" whenever the process answers
health_check_AlwaysHealthy ==
    [endpoint |-> "/health",
     status |-> "healthy",
     model_loaded |-> model # NoModel]

\* GET /health ("healthy" if model else "unhealthy"; model is not None)
health_check ==
    [endpoint |-> "/health",
     status |-> IF model # NoModel THEN "healthy" ELSE "unhealthy",
     model_loaded |-> model # NoModel]

NoProbe == [endpoint |-> "", status |-> "", model_loaded |-> FALSE]

(* ----------------------------- validation ----------------------------- *)
\* any(file.filename.lower().endswith(ext) for ext in allowed_extensions)
HasAllowedExtension(name) ==
    \E ext \in allowed_extensions : EndsWith(StrLower(name), ext)

\* the `if` of lines 103-110: "accept", "reject" (HTTPException 400) or
\* "raise" (AttributeError from None.lower()); `and` short-circuits, so the
\* filename is looked at only when the content type is not allowed
Validate(f) ==
    IF f.content_type \in allowed_types THEN "accept"
    ELSE IF ~f.filename.present THEN "raise"
    ELSE IF HasAllowedExtension(f.filename.v) THEN "accept"
    ELSE "reject"

\* os.path.splitext(file.filename)[1] if file.filename else ".tmp"
FileExtension(f) ==
    IF Truthy(f.filename) THEN SplitExt(f.filename.v) ELSE <<".","t","m","p">>

(* ------------------------- command-line process ----------------------- *)
\* the process has not exited yet
Running == -1

\* the transcribe.py process: its position in main(), sys.argv, the paths
\* that exist on disk, whether whisper.load_model has been called, whether
\* model.transcribe has returned, the locals `result` and `e`, what was
\* printed to each stream, and the exit status
Cli(at, argv, disk, loaded, res, e, out, err, code) ==
    [pc |-> at, argv |-> argv, disk |-> disk, loaded |-> loaded,
     transcribed |-> FALSE, result |-> res, exc |-> e, stdout |-> out,
     stderr |-> err, exit_code |-> code]
NoCli == Cli("off", <<>>, {}, FALSE, NoResult, NoExc, <<>>, <<>>, Running)

\* json.dumps of the response and error_response dicts
SuccessJson(text, lang) ==
    [transcription |-> text, language |-> lang, error |-> <<>>, success |-> TRUE]
ErrorJson(msg) ==
    [transcription |-> <<>>, language |-> Absent, error |-> msg, success |-> FALSE]

Paths == {"a.wav", "gone.wav"}
\* sys.argv: the script name and zero, one or two arguments
Argvs ==
    {<<"transcribe.py">>}
    \cup {<<"transcribe.py", a>> : a \in Paths}
    \cup {<<"transcribe.py", a, b>> : a \in Paths, b \in Paths}

(* ------------------------------- Init --------------------------------- *)
InitService ==
    /\ model = NoModel
    /\ startup = "pending"
    /\ load_exc = NoExc
    /\ running = NoReq
    /\ pc = [r \in Reqs |-> "idle"]
    /\ file = [r \in Reqs |-> NoUpload]
    /\ contents = [r \in Reqs |-> <<>>]
    /\ temp_file = [r \in Reqs |-> NoTemp]
    /\ closed = [r \in Reqs |-> FALSE]
    /\ audio = [r \in Reqs |-> NoTemp]
    /\ result = [r \in Reqs |-> NoResult]
    /\ exc = [r \in Reqs |-> NoExc]
    /\ response = [r \in Reqs |-> NoResponse]
    /\ fs = {}
    /\ created = [r \in Reqs |-> 0]
    /\ unlinked = [r \in Reqs |-> 0]
    /\ calls = [r \in Reqs |-> 0]
    /\ probe = NoProbe

\* concurrent clients, each sending one of the core uploads
Init ==
    /\ InitService
    /\ inputs = "core"
    /\ slots = Reqs
    /\ cli = NoCli

\* one client sending any upload of the input space
InitOne ==
    /\ InitService
    /\ inputs = "all"
    /\ slots = {1}
    /\ cli = NoCli

(* ------------------------------ startup ------------------------------- *)
LoadErrors == { "model file not found" }

\* the assignment without `global model`: the global keeps None
LoadedModel_Local == NoModel

\* what `model = whisper.load_model("base")` leaves in the global
LoadedModel == WhisperBase

\* an except block that only logs: the startup event returns normally
OnLoadError_Swallowed == "complete"

\* the except block re-raises RuntimeError: the startup event fails and the
\* server exits instead of accepting traffic
OnLoadError == "failed"

\* the server accepts requests once the startup event has returned, or when
\* the application is mounted without running its startup events
Serving == startup \in {"complete", "skipped"}

reqVars == <<running, pc, file, contents, temp_file, closed, audio, result,
             exc, response,
             fs, created, unlinked, calls>>

\* @app.on_event("startup")
load_whisper_model ==
    /\ startup = "pending"
    /\ \/ /\ model' = LoadedModel
          /\ startup' = "complete"
          /\ UNCHANGED load_exc
       \/ \E e \in LoadErrors :
             /\ load_exc' = e
             /\ startup' = OnLoadError
             /\ UNCHANGED model
    /\ UNCHANGED <<reqVars, probe, inputs, slots, cli>>

\* the application object serves requests without its startup events having
\* been run: `model` keeps its module-level value
ServeWithoutStartup ==
    /\ startup = "pending"
    /\ startup' = "skipped"
    /\ UNCHANGED <<model, load_exc, reqVars, probe, inputs, slots, cli>>

(* ------------------------------- probes ------------------------------- *)
GetRoot ==
    /\ Serving
    /\ running = NoReq
    /\ probe' = root
    /\ UNCHANGED <<model, startup, load_exc, reqVars, inputs, slots, cli>>

GetHealth ==
    /\ Serving
    /\ running = NoReq
    /\ probe' = health_check
    /\ UNCHANGED <<model, startup, load_exc, reqVars, inputs, slots, cli>>

(* -------------------------- POST /transcribe -------------------------- *)
globals == <<model, startup, load_exc, probe, inputs, slots, cli>>

\* the handler's coroutine is started for an incoming request
Receive(r) ==
    /\ Serving
    /\ r \in slots
    /\ running = NoReq
    /\ pc[r] = "idle"
    /\ \E u \in Uploads(inputs) : file' = [file EXCEPT ![r] = u]
    /\ running' = r
    /\ pc' = [pc EXCEPT ![r] = "check_model"]
    /\ UNCHANGED <<contents, temp_file, closed, audio, result, exc, response,
                   fs, created, unlinked, calls, globals>>

\* a raise before the try block: nothing of the handler runs after it
RaiseEarly(r, resp, e) ==
    /\ response' = [response EXCEPT ![r] = resp]
    /\ exc' = [exc EXCEPT ![r] = e]
    /\ pc' = [pc EXCEPT ![r] = "return"]

\* a handler without the readiness check
ModelIsNone_Never == FALSE

\* model is None
ModelIsNone == model = NoModel

\* if model is None: raise HTTPException(500, ...)
CheckModel(r) ==
    /\ running = r
    /\ pc[r] = "check_model"
    /\ IF ModelIsNone
       THEN RaiseEarly(r, HTTPException(500, ModelNotLoadedDetail), NoExc)
       ELSE /\ pc' = [pc EXCEPT ![r] = "validate"]
            /\ UNCHANGED <<response, exc>>
    /\ UNCHANGED <<running, file, contents, temp_file, closed, audio, result,
                   fs, created, unlinked, calls, globals>>

\* the file type check
ValidateUpload(r) ==
    /\ running = r
    /\ pc[r] = "validate"
    /\ CASE Validate(file[r]) = "accept" ->
              /\ pc' = [pc EXCEPT ![r] = "read"]
              /\ UNCHANGED <<response, exc>>
         [] Validate(file[r]) = "reject" ->
              RaiseEarly(r, HTTPException(400, UnsupportedDetail), NoExc)
         [] Validate(file[r]) = "raise" ->
              RaiseEarly(r, InternalServerError, AttributeError)
    /\ UNCHANGED <<running, file, contents, temp_file, closed, audio, result,
                   fs, created, unlinked, calls, globals>>

\* contents = await file.read(): the coroutine yields to the event loop
AwaitRead(r) ==
    /\ running = r
    /\ pc[r] = "read"
    /\ pc' = [pc EXCEPT ![r] = "reading"]
    /\ running' = NoReq
    /\ UNCHANGED <<file, contents, temp_file, closed, audio, result, exc,
                   response, fs, created, unlinked, calls, globals>>

\* a raise inside the try block
RaiseInTry(r, e) ==
    /\ exc' = [exc EXCEPT ![r] = e]
    /\ pc' = [pc EXCEPT ![r] = "except"]

\* the event loop resumes the coroutine: the read returned or raised
ReadDone(r) ==
    /\ running = NoReq
    /\ pc[r] = "reading"
    /\ running' = r
    /\ \/ /\ contents' = [contents EXCEPT ![r] = file[r].payload]
          /\ pc' = [pc EXCEPT ![r] = "mktemp"]
          /\ UNCHANGED exc
       \/ /\ RaiseInTry(r, ErrRead)
          /\ UNCHANGED contents
    /\ UNCHANGED <<file, temp_file, closed, audio, result, response, fs,
                   created, unlinked, calls, globals>>

\* temp_file = tempfile.NamedTemporaryFile(delete=False, suffix=file_extension)
MkTemp(r) ==
    /\ running = r
    /\ pc[r] = "mktemp"
    /\ \/ \E n \in TmpNames :
             LET name == TmpPath(n, FileExtension(file[r]))
             IN  /\ ~Exists(fs, name)
                 /\ temp_file' = [temp_file EXCEPT ![r] = name]
                 /\ fs' = fs \cup {[path |-> name, data |-> <<>>]}
                 /\ created' = [created EXCEPT ![r] = @ + 1]
                 /\ pc' = [pc EXCEPT ![r] = "write"]
                 /\ UNCHANGED <<exc, closed, audio>>
       \/ /\ RaiseInTry(r, ErrCreate)
          /\ UNCHANGED <<temp_file, closed, audio, fs, created>>
    /\ UNCHANGED <<running, file, contents, result, response, unlinked, calls,
                   globals>>

\* a write that stays in the buffer of the file object: nothing reaches the
\* file
WriteFile_Buffered(files, name, data) == files

\* the directory after `data` has been written to the file called `name`
WriteFile(files, name, data) ==
    {IF f.path = name THEN [path |-> name, data |-> data] ELSE f : f \in files}

\* temp_file.write(contents)
WriteTemp(r) ==
    /\ running = r
    /\ pc[r] = "write"
    /\ \/ /\ fs' = WriteFile(fs, temp_file[r], contents[r])
          /\ pc' = [pc EXCEPT ![r] = "close"]
          /\ UNCHANGED exc
       \/ /\ RaiseInTry(r, ErrWrite)
          /\ UNCHANGED fs
    /\ UNCHANGED <<running, file, contents, temp_file, closed, audio, result,
                   response, created, unlinked, calls, globals>>

\* temp_file.close()
CloseTemp(r) ==
    /\ running = r
    /\ pc[r] = "close"
    /\ \/ /\ closed' = [closed EXCEPT ![r] = TRUE]
          /\ pc' = [pc EXCEPT ![r] = "transcribe"]
          /\ UNCHANGED exc
       \/ /\ RaiseInTry(r, ErrClose)
          /\ UNCHANGED closed
    /\ UNCHANGED <<running, file, contents, temp_file, audio, result, response,
                   fs, created, unlinked, calls, globals>>

\* the call handed to a worker thread and awaited: the event loop is free
\* while the engine runs
CallTranscribe_InThreadpool(r) ==
    /\ running = r
    /\ pc[r] = "transcribe"
    /\ pc' = [pc EXCEPT ![r] = "transcribing"]
    /\ calls' = [calls EXCEPT ![r] = @ + 1]
    /\ audio' = [audio EXCEPT ![r] = temp_file[r]]
    /\ running' = NoReq
    /\ UNCHANGED <<file, contents, temp_file, closed, result, exc, response,
                   fs, created, unlinked, globals>>

\* result = model.transcribe(temp_file.name): the call is entered; it is a
\* plain blocking call, so the coroutine keeps the event loop
CallTranscribe(r) ==
    /\ running = r
    /\ pc[r] = "transcribe"
    /\ pc' = [pc EXCEPT ![r] = "transcribing"]
    /\ calls' = [calls EXCEPT ![r] = @ + 1]
    /\ audio' = [audio EXCEPT ![r] = temp_file[r]]
    /\ UNCHANGED <<running, file, contents, temp_file, closed, result, exc,
                   response, fs, created, unlinked, globals>>

\* model.transcribe returns a dict
TranscribeReturn(r) ==
    /\ running = r
    /\ pc[r] = "transcribing"
    /\ \E res \in EngineResults(inputs) : result' = [result EXCEPT ![r] = res]
    /\ pc' = [pc EXCEPT ![r] = "respond"]
    /\ UNCHANGED <<running, file, contents, temp_file, closed, audio, exc,
                   response, fs, created, unlinked, calls, globals>>

\* a handler that calls the engine again when the call has raised
TranscribeRaise_Retry(r) ==
    /\ running = r
    /\ pc[r] = "transcribing"
    /\ pc' = [pc EXCEPT ![r] = "transcribe"]
    /\ UNCHANGED <<running, file, contents, temp_file, closed, audio, result,
                   exc, response, fs, created, unlinked, calls, globals>>

\* model.transcribe raises
TranscribeRaise(r) ==
    /\ running = r
    /\ pc[r] = "transcribing"
    /\ \E e \in EngineErrors : RaiseInTry(r, e)
    /\ UNCHANGED <<running, file, contents, temp_file, closed, audio, result,
                   response, fs, created, unlinked, calls, globals>>

\* the engine's text passed on as it is
Transcription_Untrimmed(res) == IF res.text.present THEN res.text.v ELSE <<>>

\* result.get("text", "").strip()
Transcription(res) == Strip(IF res.text.present THEN res.text.v ELSE <<>>)

\* result.get("language", "unknown")
Language(res) == IF res.language # Absent THEN res.language ELSE "unknown"

\* the response dict of the try block
SuccessResponse(f, res) ==
    Response(200, <<>>, Body(f.filename, Transcription(res), Language(res), TRUE))

\* response = {...}; return response
BuildResponse(r) ==
    /\ running = r
    /\ pc[r] = "respond"
    /\ response' = [response EXCEPT ![r] = SuccessResponse(file[r], result[r])]
    /\ pc' = [pc EXCEPT ![r] = "finally"]
    /\ UNCHANGED <<running, file, contents, temp_file, closed, audio, result,
                   exc, fs, created, unlinked, calls, globals>>

\* except Exception as e: raise HTTPException(500, ...)
Except(r) ==
    /\ running = r
    /\ pc[r] = "except"
    /\ response' = [response EXCEPT ![r] = HTTPException(500, ErrorDetail(exc[r]))]
    /\ pc' = [pc EXCEPT ![r] = "finally"]
    /\ UNCHANGED <<running, file, contents, temp_file, closed, audio, result,
                   exc, fs, created, unlinked, calls, globals>>

\* a release that empties the temporary directory
Unlink_Directory(files, name) == {}

\* the directory after os.unlink(name) succeeded
Unlink(files, name) == {f \in files : f.path # name}

\* a handler that never removes the file
NeedsCleanup_Never(r) == FALSE

\* a handler that removes the file at the end of the try block only
NeedsCleanup_OnSuccessOnly(r) ==
    temp_file[r] # NoTemp /\ Exists(fs, temp_file[r]) /\ exc[r] = NoExc

\* if temp_file and os.path.exists(temp_file.name)
NeedsCleanup(r) == temp_file[r] # NoTemp /\ Exists(fs, temp_file[r])

\* a finally block without the inner try: the exception of os.unlink
\* replaces whatever the handler was about to return or raise
AfterCleanupError_Propagated(resp) == InternalServerError

\* except Exception as cleanup_err: logger.warning(...): what the handler
\* returns or raises after os.unlink raised
AfterCleanupError(resp) == resp

\* finally: remove the temporary file. os.unlink succeeds, or it raises with
\* the file left in place, or it raises because the file vanished after the
\* os.path.exists test
Finally(r) ==
    /\ running = r
    /\ pc[r] = "finally"
    /\ IF NeedsCleanup(r)
       THEN /\ unlinked' = [unlinked EXCEPT ![r] = @ + 1]
            /\ \/ /\ fs' = Unlink(fs, temp_file[r])
                  /\ UNCHANGED response
               \/ /\ UNCHANGED fs
                  /\ response' = [response EXCEPT ![r] = AfterCleanupError(@)]
               \/ /\ fs' = Unlink(fs, temp_file[r])
                  /\ response' = [response EXCEPT ![r] = AfterCleanupError(@)]
       ELSE UNCHANGED <<fs, unlinked, response>>
    /\ pc' = [pc EXCEPT ![r] = "return"]
    /\ UNCHANGED <<running, file, contents, temp_file, closed, audio, result,
                   exc, created, calls, globals>>

\* the handler returns its response, or its HTTPException (or another
\* exception) propagates, to the framework: the response goes to the client,
\* the coroutine and its locals are gone, the event loop is free again
Return(r) ==
    /\ running = r
    /\ pc[r] = "return"
    /\ pc' = [pc EXCEPT ![r] = "done"]
    /\ running' = NoReq
    /\ file' = [file EXCEPT ![r] = NoUpload]
    /\ contents' = [contents EXCEPT ![r] = <<>>]
    /\ temp_file' = [temp_file EXCEPT ![r] = NoTemp]
    /\ closed' = [closed EXCEPT ![r] = FALSE]
    /\ audio' = [audio EXCEPT ![r] = NoTemp]
    /\ result' = [result EXCEPT ![r] = NoResult]
    /\ exc' = [exc EXCEPT ![r] = NoExc]
    /\ response' = [response EXCEPT ![r] = NoResponse]
    /\ created' = [created EXCEPT ![r] = 0]
    /\ unlinked' = [unlinked EXCEPT ![r] = 0]
    /\ calls' = [calls EXCEPT ![r] = 0]
    /\ UNCHANGED <<fs, globals>>

\* something outside the service removes a file of the temporary directory
\* (the reason the finally block asks os.path.exists first)
ExternalRemove ==
    /\ \E f \in fs : fs' = fs \ {f}
    /\ UNCHANGED <<running, pc, file, contents, temp_file, closed, audio,
                   result, exc, response, created, unlinked, calls, globals>>

transcribe_audio(r) ==
    \/ Receive(r)
    \/ CheckModel(r)
    \/ ValidateUpload(r)
    \/ AwaitRead(r)
    \/ ReadDone(r)
    \/ MkTemp(r)
    \/ WriteTemp(r)
    \/ CloseTemp(r)
    \/ CallTranscribe(r)
    \/ TranscribeReturn(r)
    \/ TranscribeRaise(r)
    \/ BuildResponse(r)
    \/ Except(r)
    \/ Finally(r)
    \/ Return(r)

Next ==
    \/ load_whisper_model
    \/ ServeWithoutStartup
    \/ GetRoot
    \/ GetHealth
    \/ ExternalRemove
    \/ \E r \in Reqs : transcribe_audio(r)

Spec == Init /\ [][Next]_vars

(* ------------------------------ transcribe.py ------------------------- *)
\* print(json.dumps(error_response), file=sys.stderr); sys.exit(1)
CliFail(msg) ==
    cli' = [cli EXCEPT !.pc = "exited", !.stderr = Append(@, ErrorJson(msg)),
                       !.exit_code = 1]

\* if len(sys.argv) != 2
CliCheckArgs ==
    /\ cli.pc = "start"
    /\ IF Len(cli.argv) # 2
       THEN CliFail(<<"Usage: python transcribe.py <audio_file_path>">>)
       ELSE cli' = [cli EXCEPT !.pc = "check_path"]
    /\ UNCHANGED svcVars

\* a main() without the existence check
PathMissing_Never == FALSE

\* not os.path.exists(audio_file_path)
PathMissing == cli.argv[2] \notin cli.disk

\* if not os.path.exists(audio_file_path)
CliCheckPath ==
    /\ cli.pc = "check_path"
    /\ IF PathMissing
       THEN CliFail(<<"Audio file '", cli.argv[2], "' not found">>)
       ELSE cli' = [cli EXCEPT !.pc = "load"]
    /\ UNCHANGED svcVars

\* model = whisper.load_model("base")
CliLoad ==
    /\ cli.pc = "load"
    /\ \/ cli' = [cli EXCEPT !.pc = "transcribe", !.loaded = TRUE]
       \/ \E e \in LoadErrors :
             cli' = [cli EXCEPT !.pc = "except", !.loaded = TRUE, !.exc = e]
    /\ UNCHANGED svcVars

\* result = model.transcribe(audio_file_path)
CliTranscribe ==
    /\ cli.pc = "transcribe"
    /\ \/ \E res \in Results :
             cli' = [cli EXCEPT !.pc = "print", !.result = res,
                                !.transcribed = TRUE]
       \/ \E e \in EngineErrors :
             cli' = [cli EXCEPT !.pc = "except", !.exc = e]
    /\ UNCHANGED svcVars

KeyError == "'text'"

\* response = {"transcription": result["text"].strip(), ...};
\* print(json.dumps(response)); main() returns and the process exits 0
CliPrint ==
    /\ cli.pc = "print"
    /\ IF ~cli.result.text.present
       THEN cli' = [cli EXCEPT !.pc = "except", !.exc = KeyError]
       ELSE cli' = [cli EXCEPT
                      !.pc = "exited",
                      !.stdout = Append(@, SuccessJson(Strip(cli.result.text.v),
                                                       Language(cli.result))),
                      !.exit_code = 0]
    /\ UNCHANGED svcVars

\* except Exception as e: print the error to stderr; sys.exit(1)
CliExcept ==
    /\ cli.pc = "except"
    /\ CliFail(<<"Error during transcription: ", cli.exc>>)
    /\ UNCHANGED svcVars

\* the process is started with some arguments on some disk
InitCli ==
    /\ InitService
    /\ inputs = "all"
    /\ slots = {}
    /\ cli \in {Cli("start", a, d, FALSE, NoResult, NoExc, <<>>, <<>>, Running) :
                  a \in Argvs, d \in SUBSET Paths}

main ==
    \/ CliCheckArgs
    \/ CliCheckPath
    \/ CliLoad
    \/ CliTranscribe
    \/ CliPrint
    \/ CliExcept

SpecCli == InitCli /\ [][main]_vars

SpecOne == InitOne /\ [][Next]_vars

(* ============================== claims ================================ *)
\* a request is at the moment its handler returns
Returning(r) == pc[r] = "return"

\* a request holds a staged file of its own
Staged(r) == temp_file[r] # NoTemp

\* two characters equal up to case
SameLetter(a, b) ==
    a = b \/ \E k \in 1..26 : {a, b} = {Upper[k], Lower[k]}

\* the filename's extension (the text from its last dot on) is, compared
\* case-insensitively, one of the allowed extensions
ExtensionAllowed(fn) ==
    /\ fn.present
    /\ LET d == RFind(fn.v, ".")
           e == IF d = 0 THEN <<>> ELSE SubSeq(fn.v, d, Len(fn.v))
       IN  \E a \in allowed_extensions :
              /\ Len(a) = Len(e)
              /\ \A i \in 1..Len(a) : SameLetter(a[i], e[i])

TypeAllowed(ct) == ct \in allowed_types

(* ------------------------------- C1 ----------------------------------- *)
\* C1 as stated: on every exit path of transcribe_audio, a staged file the
\* request created no longer exists when the handler returns.
C1_Original ==
    \A r \in Reqs : Returning(r) /\ Staged(r) => ~Exists(fs, temp_file[r])

\* C1 (amended): when the handler returns, a staged file the request created
\* no longer exists, unless the handler called os.unlink on it and that call
\* failed (the failure is logged and swallowed).
C1_StagedFileReleased ==
    \A r \in Reqs :
        Returning(r) /\ Staged(r) /\ Exists(fs, temp_file[r]) => unlinked[r] = 1

\* an inference error, and the staged file has been removed by the handler
C1_Witness ==
    \E r \in Reqs :
        /\ Returning(r) /\ Staged(r)
        /\ IsFailed(response[r]) /\ calls[r] = 1
        /\ unlinked[r] = 1
        /\ ~Exists(fs, temp_file[r])

(* ------------------------------- C2 ----------------------------------- *)
\* the upload passed validation while the model was loaded
Validated(r) == model # NoModel /\ Validate(file[r]) = "accept"

\* C2 as stated: a validated request creates exactly one staged file and
\* performs exactly one unlink of it.
C2_Original ==
    \A r \in Reqs :
        Returning(r) /\ Validated(r) => created[r] = 1 /\ unlinked[r] = 1

\* C2 (amended): a request never creates more than one staged file nor
\* unlinks more often than it created; a request that reached the inference
\* call created exactly one staged file, whether the call returns or raises;
\* and a request that created a file returns after exactly one unlink of it,
\* or after none when the file was already gone at cleanup.
C2_OneStageOneRelease ==
    \A r \in Reqs :
        /\ created[r] <= 1
        /\ unlinked[r] <= created[r]
        /\ calls[r] >= 1 => created[r] = 1
        /\ Returning(r) /\ created[r] = 1 /\ unlinked[r] = 0
              => ~Exists(fs, temp_file[r])

\* the inference call raised; one file was created and one unlink made
C2_Witness ==
    \E r \in Reqs :
        /\ Returning(r) /\ Validated(r)
        /\ exc[r] \in EngineErrors
        /\ created[r] = 1 /\ unlinked[r] = 1

(* ------------------------------- C3 ----------------------------------- *)
\* C3: with the model loaded, an upload whose content type is not allowed
\* and whose filename (absent and empty included) carries no allowed
\* extension is answered with 400, and no staged file is created.
C3_RejectedWith400 ==
    \A r \in Reqs :
        /\ pc[r] \notin {"idle", "check_model", "done"}
        /\ model # NoModel
        /\ ~TypeAllowed(file[r].content_type)
        /\ ~ExtensionAllowed(file[r].filename)
        => /\ created[r] = 0 /\ ~Staged(r)
           /\ Returning(r) => IsRejectedBadInput(response[r])

(* ------------------------------- C4 ----------------------------------- *)
\* the handler went past validation into the try block
Accepted(r) == IsSuccess(response[r]) \/ IsFailed(response[r])

\* C4: validation is a permissive OR. A request whose filename has an allowed
\* extension (case-insensitively) is accepted whatever its content type, one
\* whose content type is allowed is accepted whatever its filename (absent
\* included), and a request is rejected with 400 only when both checks fail.
C4_PermissiveOr ==
    \A r \in Reqs :
        Returning(r) /\ model # NoModel =>
            /\ ExtensionAllowed(file[r].filename) => Accepted(r)
            /\ TypeAllowed(file[r].content_type) => Accepted(r)
            /\ IsRejectedBadInput(response[r]) =>
                  /\ ~ExtensionAllowed(file[r].filename)
                  /\ ~TypeAllowed(file[r].content_type)

\* accepted through an upper-case extension alone
C4_Witness ==
    \E r \in Reqs :
        /\ Returning(r) /\ IsSuccess(response[r])
        /\ ~TypeAllowed(file[r].content_type)
        /\ file[r].filename = Some(<<"x",".","F","L","A","C">>)

(* ------------------------------- C5 ----------------------------------- *)
\* C5: a request handled while the model is not loaded ends in
\* RejectedModelNotReady (500), whatever the upload; it is never validated,
\* staged or passed to the engine.
C5_NotReadyShortCircuit ==
    \A r \in Reqs :
        model = NoModel =>
            /\ pc[r] \in {"idle", "check_model", "return", "done"}
            /\ created[r] = 0 /\ calls[r] = 0 /\ ~Staged(r)
            /\ Returning(r) => IsRejectedModelNotReady(response[r])

\* a valid .mp3 upload answered with 500 "model not loaded"
C5_Witness ==
    \E r \in Reqs :
        /\ Returning(r) /\ model = NoModel
        /\ file[r].filename = Some(<<"a",".","m","p","3">>)
        /\ file[r].content_type = "audio/mpeg"
        /\ response[r] = HTTPException(500, ModelNotLoadedDetail)

(* ------------------------------- C6 ----------------------------------- *)
\* C6: readiness is monotonic. /health reports model_loaded false (unhealthy)
\* until the startup load completes, true (healthy) once it has completed,
\* and no step takes a true report back to false.
C6_ReadinessMonotonic ==
    [][ /\ startup = "pending" =>
            ~health_check.model_loaded /\ health_check.status = "unhealthy"
        /\ startup' = "complete" =>
            health_check'.model_loaded /\ health_check'.status = "healthy"
        /\ health_check.model_loaded => health_check'.model_loaded
        /\ probe.model_loaded /\ probe'.endpoint = "/health"
              => probe'.model_loaded
      ]_vars

\* /health has answered true after requests were handled
C6_Witness ==
    /\ startup = "complete"
    /\ probe = health_check /\ probe.model_loaded
    /\ \E r \in Reqs : pc[r] = "done"

(* ------------------------------- C7 ----------------------------------- *)
\* C7: when the startup load fails, startup is aborted: no request of any
\* kind is ever handled, the model staying unloaded.
C7_FailedLoadAbortsStartup ==
    load_exc # NoExc =>
        /\ startup = "failed"
        /\ model = NoModel
        /\ ~Serving
        /\ \A r \in Reqs : pc[r] = "idle"
        /\ probe = NoProbe

\* the load has failed
C7_Witness == load_exc \in LoadErrors /\ startup = "failed"

(* ------------------------------- C8 ----------------------------------- *)
\* C8: for a validated request, an error raised by the read, the staging or
\* the inference call is caught and ends the request in Failed: a 500 whose
\* detail carries the error's description, never a 200 or a 400.
C8_ErrorsBecomeFailed ==
    \A r \in Reqs :
        Validated(r) /\ exc[r] # NoExc /\ pc[r] \in {"finally", "return"} =>
            /\ response[r].status = 500
            /\ response[r].detail = <<"Error during transcription: ", exc[r]>>
            /\ response[r].body = NoBody

\* a failed write of the staged file is answered with 500
C8_Witness ==
    \E r \in Reqs :
        /\ Returning(r) /\ Validated(r)
        /\ exc[r] = ErrWrite
        /\ response[r].status = 500

(* ------------------------------- C9 ----------------------------------- *)
\* C9 as stated: nothing serializes the inference calls of different
\* requests, so while one request is inside model.transcribe another
\* validated request in flight can go on towards its own call.
C9_Original ==
    \A r1, r2 \in Reqs :
        r1 # r2 /\ pc[r1] = "transcribing" /\ pc[r2] = "reading"
            => ENABLED ReadDone(r2)

\* C9 (amended): several validated requests can be in flight at once, but
\* the event loop serializes them: while a request is anywhere between the
\* return of its read and its own return (the inference call included), every
\* other request is not started, suspended in its read, or finished; so at
\* most one request is inside model.transcribe at any time.
C9_InferenceSerialized ==
    /\ Cardinality({r \in Reqs : pc[r] = "transcribing"}) <= 1
    /\ \A r1, r2 \in Reqs :
          r1 # r2 /\ pc[r1] \notin {"idle", "reading", "done"}
              => pc[r2] \in {"idle", "reading", "done"}

\* one request inside the engine, another validated one waiting for its read
C9_Witness ==
    \E r1, r2 \in Reqs :
        /\ r1 # r2
        /\ pc[r1] = "transcribing"
        /\ pc[r2] = "reading" /\ Validated(r2)

(* ------------------------------- C10 ---------------------------------- *)
\* the process was given one argument, naming a path that exists
GoodArgs == Len(cli.argv) = 2 /\ cli.argv[2] \in cli.disk

\* load_model and transcribe both returned, and the result carries the
\* transcription text (a result without "text" makes result["text"] raise
\* inside the try block, which main() reports as an error during
\* transcription like any other)
Transcribed == cli.transcribed /\ cli.result.text.present

\* C10: transcribe.py exits 0 with one success object on standard output
\* exactly when it has one argument, the path exists, and load and
\* transcription both succeed; otherwise it prints an error object to standard
\* error, no success object, and exits 1; and it never loads the model when
\* the argument count is wrong or the path does not exist.
C10_ExitContract ==
    /\ ~GoodArgs => ~cli.loaded
    /\ cli.pc = "exited" =>
          IF GoodArgs /\ Transcribed
          THEN /\ cli.exit_code = 0
               /\ Len(cli.stdout) = 1 /\ cli.stdout[1].success
               /\ cli.stderr = <<>>
          ELSE /\ cli.exit_code = 1
               /\ Len(cli.stderr) = 1 /\ ~cli.stderr[1].success
               /\ cli.stdout = <<>>

\* one argument, an existing path: the transcription is printed, exit 0
C10_Witness ==
    /\ cli.pc = "exited" /\ cli.exit_code = 0
    /\ cli.argv = <<"transcribe.py", "a.wav">>
    /\ cli.stdout = <<SuccessJson(<<"h","i">>, "unknown")>>

(* ------------------------------- C11 ---------------------------------- *)
\* the suffix of the staged file's name
Suffix(r) == temp_file[r].suffix

\* the filename has an extension, as os.path.splitext understands it
HasExtension(fn) == fn.present /\ SplitExt(fn.v) # <<>>

\* C11: the staged file is named with the filename's extension when the
\* filename has one, and with ".tmp" in every other case: filename absent,
\* empty, or present without an extension.
C11_SuffixOrFallback ==
    \A r \in Reqs :
        Staged(r) =>
            Suffix(r) = IF HasExtension(file[r].filename)
                        THEN SplitExt(file[r].filename.v)
                        ELSE <<".","t","m","p">>

(* ------------------------------- C12 ---------------------------------- *)
\* what the try block and the except clause hand to the framework when the
\* removal of the staged file succeeds
ResponseOfTry(r) ==
    IF exc[r] = NoExc
    THEN Response(200, <<>>,
                  Body(file[r].filename, Transcription(result[r]),
                       Language(result[r]), TRUE))
    ELSE Response(500, ErrorDetail(exc[r]), NoBody)

\* C12: a failure to remove the staged file, the file already being gone
\* included, is swallowed: the request returns the same status and body as
\* when the removal succeeds, and the removal failure is never raised.
C12_CleanupFailureSwallowed ==
    \A r \in Reqs :
        Returning(r) /\ Staged(r) =>
            /\ response[r] = ResponseOfTry(r)
            /\ IsSuccess(response[r]) \/ IsFailed(response[r])

\* os.unlink was called and the file is still there, under a success payload
C12_Witness ==
    \E r \in Reqs :
        /\ Returning(r) /\ Staged(r)
        /\ unlinked[r] = 1
        /\ Exists(fs, temp_file[r])
        /\ IsSuccess(response[r])

\* the file was gone before the finally block looked, under a Failed error
C12_WitnessGone ==
    \E r \in Reqs :
        /\ Returning(r) /\ Staged(r)
        /\ unlinked[r] = 0
        /\ ~Exists(fs, temp_file[r])
        /\ IsFailed(response[r])

(* ------------------------------- C13 ---------------------------------- *)
\* the handler of request r has started and has not returned yet
InFlight(r) == pc[r] \notin {"idle", "done"}

\* no two requests hold the same staged path, and a request inside the
\* engine passed it its own staged path and nobody else's
StagedPathsDisjoint ==
    \A r \in Reqs :
        /\ \A r2 \in Reqs \ {r} :
               Staged(r) /\ Staged(r2) => temp_file[r] # temp_file[r2]
        /\ pc[r] = "transcribing" =>
               /\ Staged(r)
               /\ audio[r] = temp_file[r]
               /\ \A r2 \in Reqs \ {r} : temp_file[r2] # audio[r]

\* the finally block of a request removes nothing but that request's file
ReleaseOwnFileOnly ==
    \A r \in Reqs :
        pc[r] = "finally" /\ pc'[r] = "return" =>
            \A f \in fs \ fs' : f.path = temp_file[r]

\* C13: under any interleaving of concurrent requests no two in-flight
\* requests hold staged files with the same path, each request passes only
\* its own staged path to the model, and a request's release removes only
\* the file that request created.
C13_StagedFilesIsolated ==
    []StagedPathsDisjoint /\ [][ReleaseOwnFileOnly]_vars

\* a request has released its staged file while another request is in
\* flight
C13_Witness ==
    \E r \in Reqs : \E r2 \in Reqs \ {r} :
        /\ Returning(r) /\ Staged(r)
        /\ unlinked[r] = 1
        /\ ~Exists(fs, temp_file[r])
        /\ InFlight(r2)

(* ------------------------------- C14 ---------------------------------- *)
\* C14: no retries. model.transcribe is invoked at most once per request,
\* not at all for a request that ends in RejectedModelNotReady or
\* RejectedBadInput, and after it raised the request goes straight to Failed
\* without a second invocation.
C14_NoRetries ==
    \A r \in Reqs :
        /\ calls[r] <= 1
        /\ Returning(r) /\ ( \/ IsRejectedModelNotReady(response[r])
                             \/ IsRejectedBadInput(response[r]) )
              => calls[r] = 0
        /\ exc[r] \in EngineErrors =>
              /\ calls[r] = 1
              /\ pc[r] \in {"except", "finally", "return"}
              /\ pc[r] \in {"finally", "return"} => IsFailed(response[r])

\* the engine raised on its only invocation and the request is Failed
C14_Witness ==
    \E r \in Reqs :
        /\ Returning(r)
        /\ exc[r] \in EngineErrors
        /\ calls[r] = 1
        /\ IsFailed(response[r])

(* ------------------------------- C15 ---------------------------------- *)
\* the number of terminal states a response belongs to
TerminalStates(resp) ==
    Cardinality({k \in 1..4 :
        \/ k = 1 /\ IsSuccess(resp)
        \/ k = 2 /\ IsRejectedModelNotReady(resp)
        \/ k = 3 /\ IsRejectedBadInput(resp)
        \/ k = 4 /\ IsFailed(resp)})

\* C15: every received POST /transcribe request ends in exactly one of the
\* four terminal states Success, RejectedModelNotReady, RejectedBadInput or
\* Failed; no request ends in any other state.
C15_FourTerminalStates ==
    \A r \in Reqs : Returning(r) => TerminalStates(response[r]) = 1

(* ------------------------------- C16 ---------------------------------- *)
\* t is s without its leading and trailing whitespace
TrimmedOf(t, s) ==
    \E i \in 1..(Len(s) + 1), j \in 0..Len(s) :
        /\ t = SubSeq(s, i, j)
        /\ \A k \in 1..(i - 1) : s[k] \in Whitespace
        /\ \A k \in (j + 1)..Len(s) : s[k] \in Whitespace
        /\ t # <<>> => t[1] \notin Whitespace /\ t[Len(t)] \notin Whitespace

\* C16: every Success response carries exactly the fields transcription,
\* language, filename and success: success is true, filename is the upload's
\* original filename, transcription is the engine's text trimmed of
\* surrounding whitespace (empty when the engine omits text), and language is
\* the engine's language when present and "unknown" when it is omitted.
C16_SuccessPayload ==
    \A r \in Reqs :
        pc[r] \in {"finally", "return"} /\ IsSuccess(response[r]) =>
            LET body == response[r].body
            IN  /\ DOMAIN body =
                       {"transcription", "language", "filename", "success"}
                /\ body.success = TRUE
                /\ body.filename = file[r].filename
                /\ IF result[r].text.present
                   THEN TrimmedOf(body.transcription, result[r].text.v)
                   ELSE body.transcription = <<>>
                /\ body.language = IF result[r].language = Absent
                                   THEN "unknown"
                                   ELSE result[r].language

\* a text with surrounding and inner whitespace and no language, for an
\* upload without a filename
C16_Witness ==
    \E r \in Reqs :
        /\ Returning(r) /\ IsSuccess(response[r])
        /\ file[r].filename = None
        /\ result[r] = Result(Some(<<"\t","a"," ","b"," ">>), Absent)
        /\ response[r].body = Body(None, <<"a"," ","b">>, "unknown", TRUE)

(* ------------------------------- C17 ---------------------------------- *)
\* what the probes answer
ProbeAnswers ==
    /\ probe.endpoint = "/" => probe.status = "healthy"
    /\ probe.endpoint = "/health" =>
           (probe.status = "healthy" <=> probe.model_loaded)

\* a step that answers a probe changes nothing else, and /health reports
\* the model reference as it is
ProbeIsPureRead ==
    probe' # probe =>
        /\ UNCHANGED <<model, startup, load_exc, fs, reqVars>>
        /\ probe'.endpoint = "/health" =>
               probe'.model_loaded = (model # NoModel)

\* C17: GET / and GET /health are pure reads: handling either, in any state
\* and interleaved with any transcription requests, leaves the model
\* reference, every staged file and every in-flight request's state
\* unchanged; GET / always returns status healthy, and GET /health returns
\* status healthy exactly when model_loaded is true.
C17_ProbesArePureReads ==
    []ProbeAnswers /\ [][ProbeIsPureRead]_vars

\* /health answered "unhealthy" by a service whose startup event never ran
C17_Witness ==
    /\ probe.endpoint = "/health"
    /\ probe.status = "unhealthy"
    /\ ~probe.model_loaded
    /\ startup = "skipped"

\* /health answered "healthy" with a request suspended in its upload read
\* and a staged file in the directory
C17_WitnessInFlight ==
    /\ probe.endpoint = "/health"
    /\ probe.status = "healthy"
    /\ \E r \in Reqs : pc[r] = "reading"
    /\ fs # {}
    /\ ENABLED GetRoot

(* ------------------------------- C18 ---------------------------------- *)
\* the staged file of request r is in the directory with the whole payload
StagedComplete(r) ==
    \E f \in fs : f.path = temp_file[r] /\ f.data = file[r].payload

\* C18 as stated: model.transcribe is invoked only after the payload has
\* been written and the file closed, and the file is not released before the
\* call has returned or raised, so the staged file exists with its complete
\* contents for the whole duration of the inference call.
C18_Original ==
    \A r \in Reqs :
        pc[r] = "transcribing" =>
            /\ closed[r]
            /\ unlinked[r] = 0
            /\ StagedComplete(r)

\* inside the engine: the file was closed after the whole payload was
\* written, the handler has not released it, and if it is still in the
\* directory it has its complete contents
OrderedStaging ==
    \A r \in Reqs :
        pc[r] = "transcribing" =>
            /\ closed[r]
            /\ unlinked[r] = 0
            /\ contents[r] = file[r].payload
            /\ Exists(fs, temp_file[r]) => StagedComplete(r)

\* a step that takes the staged file away during the inference call is not
\* a step of the service
KeptDuringInference ==
    \A r \in Reqs :
        pc[r] = "transcribing" /\ StagedComplete(r) /\ ~StagedComplete(r)' =>
            UNCHANGED <<model, startup, load_exc, running, pc, file, contents,
                        temp_file, closed, audio, result, exc, response,
                        created, unlinked, calls, probe>>

\* C18, amended: model.transcribe is invoked only after the payload has been
\* written and the file closed, and the handler does not release the file
\* before the call has returned or raised; the staged file exists with its
\* complete contents during the inference call unless something outside the
\* service removes it.
C18_StagedBeforeInference ==
    []OrderedStaging /\ [][KeptDuringInference]_vars

\* inside the engine with a non-empty payload complete in the closed file
C18_Witness ==
    \E r \in Reqs :
        /\ pc[r] = "transcribing"
        /\ closed[r]
        /\ file[r].payload = <<82, 73>>
        /\ StagedComplete(r)
====
